---- MODULE Spec2Model ----
(***************************************************************************)
(* Verilog documentation parser (hdlparse/verilog_parser.py).              *)
(*                                                                         *)
(* Text is a sequence of one-character strings.  Positions are 0-based, as *)
(* in Python: the character at position i of t is t[i + 1].  The patterns  *)
(* of the grammar table are modelled by what Python's re does with them on *)
(* such a text (greedy quantifiers, backtracking, first alternative wins). *)
(***************************************************************************)
EXTENDS Integers, Sequences, FiniteSets, TLC

Min(S) == CHOOSE x \in S : \A y \in S : x <= y
Max(S) == CHOOSE x \in S : \A y \in S : x >= y

(* Python's None, kept apart from every text (a text holds single characters). *)
None == <<"None">>

(* ------------------------------------------------------------------------ *)
(* Character classes                                                        *)
(* ------------------------------------------------------------------------ *)

(* \s *)
Space == {" ", "\n", "\t"}

(* \w *)
WordChar ==
  {"a", "b", "c", "d", "e", "f", "g", "h", "i", "j", "k", "l", "m", "n", "o",
   "p", "q", "r", "s", "t", "u", "v", "w", "x", "y", "z",
   "A", "B", "C", "D", "E", "F", "G", "H", "I", "J", "K", "L", "M", "N", "O",
   "P", "Q", "R", "S", "T", "U", "V", "W", "X", "Y", "Z",
   "0", "1", "2", "3", "4", "5", "6", "7", "8", "9", "_"}

(* The character at position i, "EOF" outside the text. *)
Ch(t, i) == IF i >= 0 /\ i < Len(t) THEN t[i + 1] ELSE "EOF"

(* t[a:b] *)
Slice(t, a, b) == SubSeq(t, a + 1, b)

(* The literal w stands at position i. *)
Lit(t, i, w) == i + Len(w) <= Len(t) /\ SubSeq(t, i + 1, i + Len(w)) = w

(* \s* : the position after the longest run of whitespace from i. *)
RECURSIVE SkipSpace(_, _)
SkipSpace(t, i) == IF Ch(t, i) \in Space THEN SkipSpace(t, i + 1) ELSE i

(* \w* *)
RECURSIVE SkipWord(_, _)
SkipWord(t, i) == IF Ch(t, i) \in WordChar THEN SkipWord(t, i + 1) ELSE i

(* [\(\s]* *)
RECURSIVE SkipParenSpace(_, _)
SkipParenSpace(t, i) ==
  IF Ch(t, i) \in Space \cup {"("} THEN SkipParenSpace(t, i + 1) ELSE i

(* #* *)
RECURSIVE SkipHash(_, _)
SkipHash(t, i) == IF Ch(t, i) = "#" THEN SkipHash(t, i + 1) ELSE i

(* The first position >= i holding c, or -1. *)
RECURSIVE IndexOf(_, _, _)
IndexOf(t, i, c) ==
  IF i >= Len(t) THEN -1
  ELSE IF Ch(t, i) = c THEN i
  ELSE IndexOf(t, i + 1, c)

(* str.strip() *)
RECURSIVE LStrip(_)
LStrip(s) == IF s # <<>> /\ Head(s) \in Space THEN LStrip(Tail(s)) ELSE s
RECURSIVE RStrip(_)
RStrip(s) ==
  IF s # <<>> /\ s[Len(s)] \in Space THEN RStrip(SubSeq(s, 1, Len(s) - 1)) ELSE s
Strip(s) == RStrip(LStrip(s))

(* ------------------------------------------------------------------------ *)
(* Keywords of the patterns                                                 *)
(* ------------------------------------------------------------------------ *)

kw_module == <<"m", "o", "d", "u", "l", "e">>
kw_endmodule == <<"e", "n", "d", "m", "o", "d", "u", "l", "e">>
kw_parameter == <<"p", "a", "r", "a", "m", "e", "t", "e", "r">>
kw_var == <<"v", "a", "r">>
kw_signed == <<"s", "i", "g", "n", "e", "d">>

(* (signed|integer|realtime|real|time|logic), in the pattern's order *)
ParamTypes ==
  << <<"s", "i", "g", "n", "e", "d">>,
     <<"i", "n", "t", "e", "g", "e", "r">>,
     <<"r", "e", "a", "l", "t", "i", "m", "e">>,
     <<"r", "e", "a", "l">>,
     <<"t", "i", "m", "e">>,
     <<"l", "o", "g", "i", "c">> >>

(* (input|inout|output) *)
PortModes ==
  << <<"i", "n", "p", "u", "t">>,
     <<"i", "n", "o", "u", "t">>,
     <<"o", "u", "t", "p", "u", "t">> >>

(* (reg|supply0|supply1|tri|triand|trior|tri0|tri1|wire|wand|wor|logic) *)
NetTypes ==
  << <<"r", "e", "g">>,
     <<"s", "u", "p", "p", "l", "y", "0">>,
     <<"s", "u", "p", "p", "l", "y", "1">>,
     <<"t", "r", "i">>,
     <<"t", "r", "i", "a", "n", "d">>,
     <<"t", "r", "i", "o", "r">>,
     <<"t", "r", "i", "0">>,
     <<"t", "r", "i", "1">>,
     <<"w", "i", "r", "e">>,
     <<"w", "a", "n", "d">>,
     <<"w", "o", "r">>,
     <<"l", "o", "g", "i", "c">> >>

(* ------------------------------------------------------------------------ *)
(* Pattern matching: pat.match(text, pos).                                  *)
(* A match is [ok, end, groups]; an uncaptured group is None.               *)
(* ------------------------------------------------------------------------ *)

NoMatch == [ok |-> FALSE, end |-> -1, groups |-> <<>>]
Matched(e, g) == [ok |-> TRUE, end |-> e, groups |-> g]

\* (?:(k1|k2|...)\s+)? at i: the first alternative that is followed by
\* whitespace is taken, with the whitespace; otherwise nothing is consumed.
OptKeyword(t, i, kws) ==
  LET hits == {n \in DOMAIN kws :
                 Lit(t, i, kws[n]) /\ Ch(t, i + Len(kws[n])) \in Space}
  IN IF hits = {} THEN [end |-> i, kw |-> None]
     ELSE [end |-> SkipSpace(t, i + Len(kws[Min(hits)])), kw |-> kws[Min(hits)]]

\* (\[[^]]+\])+ at i: [end, last], last the start of the last bracket group;
\* end = i when not even one group matches.
RECURSIVE Ranges(_, _, _)
Ranges(t, i, last) ==
  LET r == IndexOf(t, i + 1, "]")
  IN IF Ch(t, i) = "[" /\ r >= i + 2
     THEN Ranges(t, r + 1, i)
     ELSE [end |-> i, last |-> last]

\* ((\[[^]]+\])+)? at i: the two groups it captures and where it ends.
OptRanges(t, i) ==
  LET r == Ranges(t, i, -1)
  IN IF r.end = i THEN [end |-> i, groups |-> <<None, None>>]
     ELSE [end |-> r.end,
           groups |-> <<Slice(t, i, r.end), Slice(t, r.last, r.end)>>]

\* 'metacomment':  //(?:/<|#+)\s+(.*)\n
Re_metacomment(t, i) ==
  LET a == IF Lit(t, i + 2, <<"/", "<">>) THEN i + 4
           ELSE IF Ch(t, i + 2) = "#" THEN SkipHash(t, i + 2)
           ELSE -1
      b == SkipSpace(t, a)
      \* \s+ gives characters back until (.*)\n matches behind it
      E == {e \in (a + 1)..b : IndexOf(t, e, "\n") # -1}
  IN IF ~Lit(t, i, <<"/", "/">>) \/ a = -1 \/ E = {} THEN NoMatch
     ELSE LET e == Max(E)
              n == IndexOf(t, e, "\n")
          IN Matched(n + 1, <<Slice(t, e, n)>>)

\* 'section_meta': //#\s*{{(.*)}}\n
Re_section_meta(t, i) ==
  LET a == SkipSpace(t, i + 3)
      n == IndexOf(t, a + 2, "\n")
  IN IF Lit(t, i, <<"/", "/", "#">>) /\ Lit(t, a, <<"{", "{">>)
        /\ n >= a + 4 /\ Lit(t, n - 2, <<"}", "}">>)
     THEN Matched(n + 1, <<Slice(t, a + 2, n - 2)>>)
     ELSE NoMatch

\* //.*\n
Re_comment(t, i) ==
  LET n == IndexOf(t, i + 2, "\n")
  IN IF Lit(t, i, <<"/", "/">>) /\ n # -1 THEN Matched(n + 1, <<>>) ELSE NoMatch

\* /\*
Re_block_open(t, i) ==
  IF Lit(t, i, <<"/", "*">>) THEN Matched(i + 2, <<>>) ELSE NoMatch

\* \*/
Re_block_close(t, i) ==
  IF Lit(t, i, <<"*", "/">>) THEN Matched(i + 2, <<>>) ELSE NoMatch

\* \bmodule\s*(\w+)\s*
Re_module(t, i) ==
  LET j == SkipSpace(t, i + 6)
      k == SkipWord(t, j)
  IN IF Lit(t, i, kw_module) /\ Ch(t, i - 1) \notin WordChar /\ k > j
     THEN Matched(SkipSpace(t, k), <<Slice(t, j, k)>>)
     ELSE NoMatch

\* endmodule
Re_endmodule(t, i) ==
  IF Lit(t, i, kw_endmodule) THEN Matched(i + 9, <<>>) ELSE NoMatch

\* 'parameter':
\* parameter\s+(?:(signed|integer|realtime|real|time|logic)\s+)?(\[[^]]+\])?
Re_parameter(t, i) ==
  LET j == SkipSpace(t, i + 9)
      ty == OptKeyword(t, j, ParamTypes)
      r == IndexOf(t, ty.end + 1, "]")
  IN IF Lit(t, i, kw_parameter) /\ j > i + 9
     THEN IF Ch(t, ty.end) = "[" /\ r >= ty.end + 2
          THEN Matched(r + 1, <<ty.kw, Slice(t, ty.end, r + 1)>>)
          ELSE Matched(ty.end, <<ty.kw, None>>)
     ELSE NoMatch

\* \s* + 'parameter'
Re_sp_parameter(t, i) == Re_parameter(t, SkipSpace(t, i))

\* 'port':
\* (input|inout|output)\s+(?:var\s+)?(?:(reg|...|logic)\s+)?
Re_port(t, i) ==
  LET hits == {n \in DOMAIN PortModes :
                 Lit(t, i, PortModes[n]) /\ Ch(t, i + Len(PortModes[n])) \in Space}
  IN IF hits = {} THEN NoMatch
     ELSE LET m == PortModes[Min(hits)]
              v == OptKeyword(t, SkipSpace(t, i + Len(m)), <<kw_var>>)
              nt == OptKeyword(t, v.end, NetTypes)
          IN Matched(nt.end, <<m, nt.kw>>)

\* ^[\(\s]* + 'port' + (?:(signed)\s+)?((\[[^]]+\])+)?   (re.MULTILINE)
Re_module_port_start(t, i) ==
  LET p == Re_port(t, SkipParenSpace(t, i))
  IN IF (i = 0 \/ Ch(t, i - 1) = "\n") /\ p.ok
     THEN LET s == OptKeyword(t, p.end, <<kw_signed>>)
              r == OptRanges(t, s.end)
          IN Matched(r.end, p.groups \o <<s.kw>> \o r.groups)
     ELSE NoMatch

\* \s* + 'port' + (signed)?\s*((\[[^]]+\])+)?
Re_port_start(t, i) ==
  LET p == Re_port(t, SkipSpace(t, i))
  IN IF p.ok
     THEN LET sg == Lit(t, p.end, kw_signed)
              r == OptRanges(t, SkipSpace(t, IF sg THEN p.end + 6 ELSE p.end))
          IN Matched(r.end, p.groups \o <<IF sg THEN kw_signed ELSE None>>
                               \o r.groups)
     ELSE NoMatch

\* \s*(\w*)\s*,?  : the port name may be empty, so the pattern matches the
\* empty string.
Re_port_param_Empty(t, i) ==
  LET j == SkipSpace(t, i)
      k == SkipWord(t, j)
      e == SkipSpace(t, k)
  IN Matched(IF Ch(t, e) = "," THEN e + 1 ELSE e, <<Slice(t, j, k)>>)

\* \s*(\w+)\s*,?
Re_port_param(t, i) ==
  LET j == SkipSpace(t, i)
      k == SkipWord(t, j)
      e == SkipSpace(t, k)
  IN IF k > j
     THEN Matched(IF Ch(t, e) = "," THEN e + 1 ELSE e, <<Slice(t, j, k)>>)
     ELSE NoMatch

\* (?:(?!\/\/|[,)]).)+ : the position after the longest run of value
\* characters from i ('.' does not match a newline).
RECURSIVE ValueEnd(_, _)
ValueEnd(t, i) ==
  IF i < Len(t) /\ Ch(t, i) \notin {"\n", ",", ")"} /\ ~Lit(t, i, <<"/", "/">>)
  THEN ValueEnd(t, i + 1)
  ELSE i

\* \s*(\w+)\s*=\s*((?:(?!\/\/|[,)]).)+)
Re_param_item(t, i) ==
  LET j == SkipSpace(t, i)
      k == SkipWord(t, j)
      q == SkipSpace(t, k)
      b == SkipSpace(t, q + 1)
      \* the \s* after '=' gives characters back until a value character follows
      S == {s \in (q + 1)..b : ValueEnd(t, s) > s}
  IN IF k > j /\ Ch(t, q) = "=" /\ S # {}
     THEN Matched(ValueEnd(t, Max(S)),
                  <<Slice(t, j, k), Slice(t, Max(S), ValueEnd(t, Max(S)))>>)
     ELSE NoMatch

\* ,
Re_comma(t, i) == IF Ch(t, i) = "," THEN Matched(i + 1, <<>>) ELSE NoMatch

\* [);]
Re_close(t, i) == IF Ch(t, i) \in {")", ";"} THEN Matched(i + 1, <<>>) ELSE NoMatch

(* ------------------------------------------------------------------------ *)
(* The grammar table                                                        *)
(* ------------------------------------------------------------------------ *)

Rule(p, a, n) == [pat |-> p, action |-> a, new_state |-> n]

\* The rules of each state in order: (pattern, action, new_state); "None" for
\* a rule with no action or no transition.
root_rules ==
  << Rule("module", "module", "module"),
     Rule("block_open", "block_comment", "block_comment"),
     Rule("metacomment", "metacomment", "None"),
     Rule("comment", "None", "None") >>

\* The rules of 'module' with a bare identifier taken as a port.
module_rules_BarePort ==
  << Rule("parameter", "parameter_start", "parameters"),
     Rule("module_port_start", "module_port_start", "module_port"),
     Rule("endmodule", "end_module", "#pop"),
     Rule("block_open", "block_comment", "block_comment"),
     Rule("section_meta", "section_all", "None"),
     Rule("comment", "None", "None"),
     Rule("port_param", "port_param", "module_port") >>

\* The rules of 'module' with no pop on endmodule.
module_rules_EndNoPop ==
  << Rule("parameter", "parameter_start", "parameters"),
     Rule("module_port_start", "module_port_start", "module_port"),
     Rule("endmodule", "end_module", "None"),
     Rule("block_open", "block_comment", "block_comment"),
     Rule("section_meta", "section_all", "None"),
     Rule("comment", "None", "None") >>

module_rules ==
  << Rule("parameter", "parameter_start", "parameters"),
     Rule("module_port_start", "module_port_start", "module_port"),
     Rule("endmodule", "end_module", "#pop"),
     Rule("block_open", "block_comment", "block_comment"),
     Rule("section_meta", "section_all", "None"),
     Rule("comment", "None", "None") >>

parameters_rules ==
  << Rule("sp_parameter", "parameter_start", "None"),
     Rule("param_item", "param_item", "None"),
     Rule("section_meta", "section_param", "None"),
     Rule("metacomment", "metacomment", "None"),
     Rule("comma", "None", "None"),
     Rule("comment", "None", "None"),
     Rule("close", "None", "#pop") >>

\* The rules of 'module_port' with the opener pushing the state again, as
\* the opener of 'module' does.
module_port_rules_OpenerPushes ==
  << Rule("port_start", "module_port_start", "module_port"),
     Rule("port_param", "port_param", "None"),
     Rule("block_open", "block_comment", "block_comment"),
     Rule("close", "None", "#pop"),
     Rule("section_meta", "section_port", "None"),
     Rule("metacomment", "metacomment", "None"),
     Rule("comment", "None", "None") >>

module_port_rules ==
  << Rule("port_start", "module_port_start", "None"),
     Rule("port_param", "port_param", "None"),
     Rule("block_open", "block_comment", "block_comment"),
     Rule("close", "None", "#pop"),
     Rule("section_meta", "section_port", "None"),
     Rule("metacomment", "metacomment", "None"),
     Rule("comment", "None", "None") >>

\* The rules of 'block_comment' with endmodule recognised inside a comment.
block_comment_rules_EndModule ==
  << Rule("block_close", "end_comment", "#pop"),
     Rule("endmodule", "end_module", "None") >>

block_comment_rules ==
  << Rule("block_close", "end_comment", "#pop") >>

verilog_tokens ==
  [root |-> root_rules,
   module |-> module_rules,
   parameters |-> parameters_rules,
   module_port |-> module_port_rules,
   block_comment |-> block_comment_rules]

\* The compiled pattern of a rule, matched at position i of t.
Match(p, t, i) ==
  CASE p = "module" -> Re_module(t, i)
    [] p = "block_open" -> Re_block_open(t, i)
    [] p = "block_close" -> Re_block_close(t, i)
    [] p = "metacomment" -> Re_metacomment(t, i)
    [] p = "section_meta" -> Re_section_meta(t, i)
    [] p = "comment" -> Re_comment(t, i)
    [] p = "parameter" -> Re_parameter(t, i)
    [] p = "sp_parameter" -> Re_sp_parameter(t, i)
    [] p = "module_port_start" -> Re_module_port_start(t, i)
    [] p = "port_start" -> Re_port_start(t, i)
    [] p = "port_param" -> Re_port_param(t, i)
    [] p = "param_item" -> Re_param_item(t, i)
    [] p = "endmodule" -> Re_endmodule(t, i)
    [] p = "comma" -> Re_comma(t, i)
    [] p = "close" -> Re_close(t, i)

(* ------------------------------------------------------------------------ *)
(* The lexer engine (MiniLexer.run): one step at position i with state      *)
(* stack stk.  The first rule of the top state that matches at i wins; with *)
(* no match the cursor moves one character on; at the end of the text the   *)
(* run ends.                                                                *)
(* ------------------------------------------------------------------------ *)

Top(stk) == stk[Len(stk)]

\* pat.match(text, pos) for every rule of a state, in the rules' order.
Matches(t, i, rules) == [k \in DOMAIN rules |-> Match(rules[k].pat, t, i)]

\* The index of the first rule that matched, 0 when none did.
FirstMatch(ms) ==
  IF \E k \in DOMAIN ms : ms[k].ok
  THEN Min({k \in DOMAIN ms : ms[k].ok})
  ELSE 0

\* The stack after a rule's transition.
Transition(stk, n) ==
  CASE n = "None" -> stk
    [] n = "#pop" -> SubSeq(stk, 1, Len(stk) - 1)
    [] OTHER -> Append(stk, n)

\* The step taken when rule k of the top state is the first match (k = 0:
\* none matched): the rule's action and groups, the new cursor and stack
\* (raised: the pop emptied the stack, and the next state cannot be read);
\* or an advance by one character; or, at the end of the text, the end.
Step(t, i, stk, ms, k) ==
  IF k # 0
  THEN [kind |-> "match",
        action |-> verilog_tokens[Top(stk)][k].action,
        groups |-> ms[k].groups,
        pos |-> ms[k].end,
        stack |-> Transition(stk, verilog_tokens[Top(stk)][k].new_state),
        raised |-> Transition(stk, verilog_tokens[Top(stk)][k].new_state) = <<>>]
  ELSE IF i < Len(t)
  THEN [kind |-> "advance", action |-> "None", groups |-> <<>>,
        pos |-> i + 1, stack |-> stk, raised |-> FALSE]
  ELSE [kind |-> "end", action |-> "None", groups |-> <<>>,
        pos |-> i, stack |-> stk, raised |-> FALSE]

ScanMatches(t, i, stk, ms) == Step(t, i, stk, ms, FirstMatch(ms))

\* One step of the scanner at position i with stack stk.
Scan(t, i, stk) == ScanMatches(t, i, stk, Matches(t, i, verilog_tokens[Top(stk)]))

(* ------------------------------------------------------------------------ *)
(* The data model                                                           *)
(* ------------------------------------------------------------------------ *)

\* VerilogParameter(name, mode, data_type, data_size, default_value)
VerilogParameter(nm, md, ty, sz, dv) ==
  [name |-> nm, mode |-> md, data_type |-> ty, data_size |-> sz,
   default_value |-> dv, desc |-> <<>>]

\* VerilogModule(name, ports, generics, paramsections, portsections, desc)
VerilogModule(nm, po, ge, pas, pos_, de) ==
  [name |-> nm, kind |-> "module", ports |-> po, generics |-> ge,
   paramsections |-> pas, portsections |-> pos_, desc |-> de]

\* dict(pairs) with the first pair of a key giving its value.
Dict_FirstWins(pairs) ==
  [k \in {pairs[i][1] : i \in DOMAIN pairs} |->
     pairs[Min({i \in DOMAIN pairs : pairs[i][1] = k})][2]]

\* dict(pairs): one entry per key, the last pair of a key giving its value.
Dict(pairs) ==
  [k \in {pairs[i][1] : i \in DOMAIN pairs} |->
     pairs[Max({i \in DOMAIN pairs : pairs[i][1] = k})][2]]

\* OrderedDict assignment that moves a key that is present to the end.
OrderedDictSet_MoveToEnd(d, key, val) ==
  Append(SelectSeq(d, LAMBDA x : x.key # key), [key |-> key, obj |-> val])

\* d[key] = val on an OrderedDict d, a sequence of [key, obj]: a key that
\* is present keeps its place, a new key goes to the end.
OrderedDictSet(d, key, val) ==
  LET at == {k \in DOMAIN d : d[k].key = key}
  IN IF at = {} THEN Append(d, [key |-> key, obj |-> val])
     ELSE [d EXCEPT ![Min(at)].obj = val]

\* d.values()
Values(d) == [k \in DOMAIN d |-> d[k].obj]

(* ------------------------------------------------------------------------ *)
(* parse_verilog: the interpreter of the events.                            *)
(* Its locals are the fields of s.  Parameter objects live in s.heap and    *)
(* are referred to by their index there (last_item = 0 is None), so that    *)
(* an append to last_item.desc is seen through every reference.  s.raised   *)
(* records that a statement raised.                                         *)
(* ------------------------------------------------------------------------ *)

\* The locals at the top of parse_verilog.
InitLocals ==
  [name |-> None, mode |-> <<"i", "n", "p", "u", "t">>,
   port_type |-> <<"w", "i", "r", "e">>, port_size |-> None,
   param_type |-> <<>>, param_size |-> None,
   metacomments |-> <<>>, generics |-> <<>>, ports |-> <<>>,
   paramsections |-> <<>>, param_index |-> 0,
   portsections |-> <<>>, port_index |-> 0,
   last_item |-> 0, objects |-> <<>>, heap |-> <<>>, raised |-> FALSE]

Raise(s) == [s EXCEPT !.raised = TRUE]

\* metacomment that always goes to the module's description.
OnMetacomment_ToModule(s, groups) ==
  IF Len(groups) < 1 \/ groups[1] = None THEN Raise(s)
  ELSE [s EXCEPT !.metacomments = Append(@, Strip(groups[1]))]

\* if action == 'metacomment'
OnMetacomment(s, groups) ==
  IF Len(groups) < 1 \/ groups[1] = None THEN Raise(s)
  ELSE LET comment == Strip(groups[1])
       IN IF s.last_item = 0
          THEN [s EXCEPT !.metacomments = Append(@, comment)]
          ELSE [s EXCEPT !.heap[s.last_item].desc = Append(@, comment)]

\* section_all that keys both lists with the port count.
OnSectionAll_OneCount(s, groups) ==
  IF Len(groups) < 1 THEN Raise(s)
  ELSE [s EXCEPT !.paramsections = Append(@, <<s.port_index, groups[1]>>),
                 !.portsections = Append(@, <<s.port_index, groups[1]>>)]

\* if action == 'section_all'
OnSectionAll(s, groups) ==
  IF Len(groups) < 1 THEN Raise(s)
  ELSE [s EXCEPT !.paramsections = Append(@, <<s.param_index, groups[1]>>),
                 !.portsections = Append(@, <<s.port_index, groups[1]>>)]

\* if action == 'section_param'
OnSectionParam(s, groups) ==
  IF Len(groups) < 1 THEN Raise(s)
  ELSE [s EXCEPT !.paramsections = Append(@, <<s.param_index, groups[1]>>)]

\* if action == 'section_port'
OnSectionPort(s, groups) ==
  IF Len(groups) < 1 THEN Raise(s)
  ELSE [s EXCEPT !.portsections = Append(@, <<s.port_index, groups[1]>>)]

\* module that also empties the buffered metacomments.
OnModule_ResetMetacomments(s, groups) ==
  IF Len(groups) < 1 THEN Raise(s)
  ELSE [s EXCEPT !.name = groups[1],
                 !.generics = <<>>, !.ports = <<>>,
                 !.paramsections = <<>>, !.param_index = 0,
                 !.portsections = <<>>, !.port_index = 0,
                 !.metacomments = <<>>]

\* module that keeps the ports of the module before.
OnModule_KeepPorts(s, groups) ==
  IF Len(groups) < 1 THEN Raise(s)
  ELSE [s EXCEPT !.name = groups[1],
                 !.generics = <<>>,
                 !.paramsections = <<>>, !.param_index = 0,
                 !.portsections = <<>>, !.port_index = 0]

\* elif action == 'module'
OnModule(s, groups) ==
  IF Len(groups) < 1 THEN Raise(s)
  ELSE [s EXCEPT !.name = groups[1],
                 !.generics = <<>>, !.ports = <<>>,
                 !.paramsections = <<>>, !.param_index = 0,
                 !.portsections = <<>>, !.port_index = 0]

\* parameter_start that keeps the previous opener's type when it captures
\* none, where the code resets it to ''.
OnParameterStart_KeepType(s, groups) ==
  IF Len(groups) # 2 THEN Raise(s)
  ELSE [s EXCEPT !.param_type = IF groups[1] # None THEN groups[1] ELSE @,
                 !.param_size = groups[2]]

\* parameter_start that keeps the previous opener's size when it captures
\* no range, where the code resets it to None.
OnParameterStart_KeepSize(s, groups) ==
  IF Len(groups) # 2 THEN Raise(s)
  ELSE [s EXCEPT !.param_type = IF groups[1] # None THEN groups[1] ELSE <<>>,
                 !.param_size = IF groups[2] # None THEN groups[2] ELSE @]

\* elif action == 'parameter_start'
OnParameterStart(s, groups) ==
  IF Len(groups) # 2 THEN Raise(s)
  ELSE LET net_type == groups[1]
           vec_range == groups[2]
       IN [s EXCEPT !.param_type = IF net_type # None THEN net_type ELSE <<>>,
                    !.param_size = IF vec_range # None THEN vec_range ELSE None]

\* elif action == 'param_item'
OnParamItem(s, groups) ==
  IF Len(groups) # 2 THEN Raise(s)
  ELSE LET param == VerilogParameter(groups[1], <<"p", "a", "r", "a", "m">>,
                                     s.param_type, s.param_size, groups[2])
           id == Len(s.heap) + 1
       IN [s EXCEPT !.heap = Append(@, param),
                    !.generics = Append(@, id),
                    !.param_index = @ + 1,
                    !.last_item = id]

\* module_port_start handled by unpacking all the groups into four names
\* where the code slices: groups[0:4].
OnModulePortStart_Unpack(s, groups) ==
  IF Len(groups) # 4 THEN Raise(s)
  ELSE [s EXCEPT !.port_type =
                   IF groups[3] # None
                   THEN (IF groups[2] # None THEN groups[2] ELSE <<"w", "i", "r", "e">>)
                          \o <<" ">> \o groups[3]
                   ELSE (IF groups[2] # None THEN groups[2] ELSE <<"w", "i", "r", "e">>),
                 !.port_size = groups[4],
                 !.mode = groups[1]]

\* module_port_start that keeps the previous opener's size when it captures
\* no range, where the code resets it to None.
OnModulePortStart_KeepSize(s, groups) ==
  IF Len(groups) < 4 THEN Raise(s)
  ELSE [s EXCEPT !.port_type =
                   IF groups[3] # None
                   THEN (IF groups[2] # None THEN groups[2] ELSE <<"w", "i", "r", "e">>)
                          \o <<" ">> \o groups[3]
                   ELSE (IF groups[2] # None THEN groups[2] ELSE <<"w", "i", "r", "e">>),
                 !.port_size = IF groups[4] # None THEN groups[4] ELSE @,
                 !.mode = groups[1]]

\* elif action == 'module_port_start'
OnModulePortStart(s, groups) ==
  IF Len(groups) < 4 THEN Raise(s)
  ELSE LET new_mode == groups[1]
           net_type == groups[2]
           signed == groups[3]
           vec_range == groups[4]
           ty == IF net_type # None THEN net_type ELSE <<"w", "i", "r", "e">>
       IN [s EXCEPT !.port_type = IF signed # None THEN ty \o <<" ">> \o signed
                                  ELSE ty,
                    !.port_size = IF vec_range # None THEN vec_range ELSE None,
                    !.mode = new_mode]

\* elif action == 'port_param'
OnPortParam(s, groups) ==
  IF Len(groups) < 1 THEN Raise(s)
  ELSE LET port_ident == groups[1]
           port_obj == VerilogParameter(port_ident, s.mode, s.port_type,
                                        s.port_size, None)
           id == Len(s.heap) + 1
       IN [s EXCEPT !.heap = Append(@, port_obj),
                    !.ports = OrderedDictSet(@, port_ident, id),
                    !.port_index = @ + 1,
                    !.last_item = id]

\* end_module that hands the two section lists to VerilogModule in the
\* wrong order.
OnEndModule_SwappedSections(s, groups) ==
  [s EXCEPT !.objects = Append(@, VerilogModule(s.name, Values(s.ports), s.generics,
                                                Dict(s.portsections), Dict(s.paramsections),
                                                s.metacomments)),
            !.last_item = 0,
            !.metacomments = <<>>]

\* end_module that leaves last_item on the module's last port or parameter.
OnEndModule_KeepLastItem(s, groups) ==
  [s EXCEPT !.objects = Append(@, VerilogModule(s.name, Values(s.ports), s.generics,
                                                Dict(s.paramsections), Dict(s.portsections),
                                                s.metacomments)),
            !.metacomments = <<>>]

\* elif action == 'end_module'
OnEndModule(s, groups) ==
  LET vobj == VerilogModule(s.name, Values(s.ports), s.generics,
                            Dict(s.paramsections), Dict(s.portsections),
                            s.metacomments)
  IN [s EXCEPT !.objects = Append(@, vobj),
               !.last_item = 0,
               !.metacomments = <<>>]

\* The body of the loop for one event; an action no branch names changes
\* nothing.
Interpret(s, action, groups) ==
  CASE action = "metacomment" -> OnMetacomment(s, groups)
    [] action = "section_all" -> OnSectionAll(s, groups)
    [] action = "section_param" -> OnSectionParam(s, groups)
    [] action = "section_port" -> OnSectionPort(s, groups)
    [] action = "module" -> OnModule(s, groups)
    [] action = "parameter_start" -> OnParameterStart(s, groups)
    [] action = "param_item" -> OnParamItem(s, groups)
    [] action = "module_port_start" -> OnModulePortStart(s, groups)
    [] action = "port_param" -> OnPortParam(s, groups)
    [] action = "end_module" -> OnEndModule(s, groups)
    [] OTHER -> s

\* A parameter object as a value: the object at id in heap h.
ParamValue(h, id) == h[id]

\* A module record as a value, its ports and generics read through h.
ModuleValue(h, m) ==
  [m EXCEPT !.ports = [k \in DOMAIN m.ports |-> ParamValue(h, m.ports[k])],
            !.generics = [k \in DOMAIN m.generics |-> ParamValue(h, m.generics[k])]]

\* The list parse_verilog returns, as values.
ObjectValues(s) == [k \in DOMAIN s.objects |-> ModuleValue(s.heap, s.objects[k])]

\* parse_verilog(text) run to its end from cursor i, stack stk and locals s:
\* the returned list, or "raised".
RECURSIVE Run(_, _, _, _)
RunStep(t, s, sc) ==
  IF sc.kind = "end" THEN [raised |-> FALSE, objects |-> ObjectValues(s)]
  ELSE IF sc.action = "None" /\ ~sc.raised THEN Run(t, sc.pos, sc.stack, s)
  ELSE IF sc.raised \/ Interpret(s, sc.action, sc.groups).raised
  THEN [raised |-> TRUE, objects |-> <<>>]
  ELSE Run(t, sc.pos, sc.stack, Interpret(s, sc.action, sc.groups))

Run(t, i, stk, s) == RunStep(t, s, Scan(t, i, stk))

parse_verilog(t) == Run(t, 0, <<"root">>, InitLocals)

(* ------------------------------------------------------------------------ *)
(* VerilogExtractor: extract_objects and its object_cache.                  *)
(* A dict is a function on its keys.                                        *)
(* ------------------------------------------------------------------------ *)

\* {}
EmptyDict == [k \in {} |-> <<>>]

\* d[key] = val on a dict
DictSet(d, key, val) ==
  [k \in DOMAIN d \cup {key} |-> IF k = key THEN val ELSE d[k]]

\* del d[key]
DictDel(d, key) == [k \in DOMAIN d \ {key} |-> d[k]]

\* fname in self.object_cache, looked up with .get(): an empty list that is
\* cached counts as a miss.
CacheHit_Truthy(cache, fname) == fname \in DOMAIN cache /\ cache[fname] # <<>>

\* fname in self.object_cache
CacheHit(cache, fname) == fname \in DOMAIN cache

\* The classes an object of the given kind is an instance of: the records of
\* parse_verilog are VerilogModule objects, a VerilogObject subclass;
\* VerilogParameter is no VerilogObject.
ClassesOf(kind) ==
  IF kind = "module" THEN {"VerilogModule", "VerilogObject"} ELSE {}

\* isinstance(o, cls)
IsInstance(o, cls) == cls \in ClassesOf(o.kind)

\* if type_filter: objects = [o for o in objects if isinstance(o, type_filter)]
Filter(objs, type_filter) ==
  IF type_filter = "None" THEN objs
  ELSE SelectSeq(objs, LAMBDA o : IsInstance(o, type_filter))

(* ------------------------------------------------------------------------ *)
(* The buffers parse_verilog is run on: a prologue, up to MaxLines lines    *)
(* and an epilogue, and the example of the specification.                   *)
(* ------------------------------------------------------------------------ *)

MaxLines == 2

\* ""
P_none == <<>>

\* "module m (\n"
P_module == <<
    "m", "o", "d", "u", "l", "e", " ", "m", " ", "(", "\n" >>

\* "//# doc\nmodule m (\n"
P_doc_module == <<
    "/", "/", "#", " ", "d", "o", "c", "\n", "m", "o", "d", "u", "l", "e",
    " ", "m", " ", "(", "\n" >>

\* "module m0 (\ninput x\n);\nendmodule\nmodule m (\n"
P_two_modules == <<
    "m", "o", "d", "u", "l", "e", " ", "m", "0", " ", "(", "\n", "i", "n",
    "p", "u", "t", " ", "x", "\n", ")", ";", "\n", "e", "n", "d", "m", "o",
    "d", "u", "l", "e", "\n", "m", "o", "d", "u", "l", "e", " ", "m", " ",
    "(", "\n" >>

\* ""
E_none == <<>>

\* ");\nendmodule\n"
E_close == <<
    ")", ";", "\n", "e", "n", "d", "m", "o", "d", "u", "l", "e", "\n" >>

\* "//# top \n"
L_metacomment == <<
    "/", "/", "#", " ", "t", "o", "p", " ", "\n" >>

\* "input wire a,\n"
L_input == <<
    "i", "n", "p", "u", "t", " ", "w", "i", "r", "e", " ", "a", ",", "\n" >>

\* "input //# in\n"
L_input_meta == <<
    "i", "n", "p", "u", "t", " ", "/", "/", "#", " ", "i", "n", "\n" >>

\* "input e, e);\n"
L_redeclared_close == <<
    "i", "n", "p", "u", "t", " ", "e", ",", " ", "e", ")", ";", "\n" >>

\* "output reg [7:0] b, a\n"
L_output == <<
    "o", "u", "t", "p", "u", "t", " ", "r", "e", "g", " ", "[", "7", ":",
    "0", "]", " ", "b", ",", " ", "a", "\n" >>

\* "inout c\n"
L_inout == <<
    "i", "n", "o", "u", "t", " ", "c", "\n" >>

\* "//# {{T}}\n"
L_section_T == <<
    "/", "/", "#", " ", "{", "{", "T", "}", "}", "\n" >>

\* "//# {{U}}\n"
L_section_U == <<
    "/", "/", "#", " ", "{", "{", "U", "}", "}", "\n" >>

\* "parameter integer N = 4, M = 8\n"
L_parameter == <<
    "p", "a", "r", "a", "m", "e", "t", "e", "r", " ", "i", "n", "t", "e",
    "g", "e", "r", " ", "N", " ", "=", " ", "4", ",", " ", "M", " ", "=",
    " ", "8", "\n" >>

\* "parameter [3:0] P = 1\n"
L_parameter_range == <<
    "p", "a", "r", "a", "m", "e", "t", "e", "r", " ", "[", "3", ":", "0",
    "]", " ", "P", " ", "=", " ", "1", "\n" >>

\* "endmodule\n"
L_endmodule == <<
    "e", "n", "d", "m", "o", "d", "u", "l", "e", "\n" >>

\* "/* endmodule\n"
L_block_open == <<
    "/", "*", " ", "e", "n", "d", "m", "o", "d", "u", "l", "e", "\n" >>

\* "*/\n"
L_block_close == <<
    "*", "/", "\n" >>

\* "module m2 (\n"
L_module == <<
    "m", "o", "d", "u", "l", "e", " ", "m", "2", " ", "(", "\n" >>

\* the example of the specification: "module foo\n  input wire a,\n  output reg [7:0] b\n);\nendmodule\n"
FooExample == <<
    "m", "o", "d", "u", "l", "e", " ", "f", "o", "o", "\n", " ", " ", "i",
    "n", "p", "u", "t", " ", "w", "i", "r", "e", " ", "a", ",", "\n", " ",
    " ", "o", "u", "t", "p", "u", "t", " ", "r", "e", "g", " ", "[", "7",
    ":", "0", "]", " ", "b", "\n", ")", ";", "\n", "e", "n", "d", "m", "o",
    "d", "u", "l", "e", "\n" >>

Prologues == {P_none, P_module, P_doc_module, P_two_modules}
Epilogues == {E_none, E_close}
Lines ==
  {L_metacomment,
   L_input,
   L_input_meta,
   L_redeclared_close,
   L_output,
   L_inout,
   L_section_T,
   L_section_U,
   L_parameter,
   L_parameter_range,
   L_endmodule,
   L_block_open,
   L_block_close,
   L_module}

\* The concatenations of at most n lines.
RECURSIVE Bodies(_)
Bodies(n) ==
  IF n = 0 THEN {<<>>}
  ELSE LET B == Bodies(n - 1) IN B \cup {b \o l : b \in B, l \in Lines}

Texts ==
  {p \o b \o e : p \in Prologues, b \in Bodies(MaxLines), e \in Epilogues}
    \cup {FooExample}

\* The calls and file changes of one run of the extractor.
MaxCalls == 4

\* The paths of src/test/test.py and the type filters a caller passes.
Paths == {"test.v", "CREATEME.sv"}
TypeFilters == {"None", "VerilogObject", "VerilogModule", "VerilogParameter"}

\* The contents a file may have: nothing, one module, two modules.
FileTexts ==
  {<<>>, P_module \o L_inout \o E_close, P_two_modules \o L_inout \o E_close}

\* The files that exist, as a dict from path to content.
FileSystems == UNION {[D -> FileTexts] : D \in SUBSET Paths}

(* ------------------------------------------------------------------------ *)
(* State                                                                    *)
(* ------------------------------------------------------------------------ *)

VARIABLES
  text,           \* the buffer given to parse_verilog
  pos,            \* the lexer's cursor
  stack,          \* the lexer's stack of states
  pc,             \* "run", "returned" or "raised"
  name, mode, port_type, port_size, param_type, param_size,
  metacomments, generics, ports, paramsections, param_index,
  portsections, port_index, last_item, objects,
  heap,           \* the parameter objects created so far
  events,         \* history: the events the lexer has yielded
  object_cache,   \* VerilogExtractor.object_cache
  files,          \* the files on disk: path -> content
  reads,          \* history: how often each path's file has been read
  ret,            \* what the last successful extract_objects returned
  call,           \* history: the last call of extract_objects
  first,          \* history: path -> the list of its first successful call
  calls           \* history: the calls and file changes so far

lexer == <<text, pos, stack>>
locals ==
  <<name, mode, port_type, port_size, param_type, param_size, metacomments,
    generics, ports, paramsections, param_index, portsections, port_index,
    last_item, objects, heap>>
parser == <<lexer, pc, locals, events>>
extractor == <<object_cache, files, reads, ret, call, first, calls>>
vars == <<parser, extractor>>

\* The locals now, as the record the interpreter works on.
Cur ==
  [name |-> name, mode |-> mode, port_type |-> port_type,
   port_size |-> port_size, param_type |-> param_type,
   param_size |-> param_size, metacomments |-> metacomments,
   generics |-> generics, ports |-> ports, paramsections |-> paramsections,
   param_index |-> param_index, portsections |-> portsections,
   port_index |-> port_index, last_item |-> last_item, objects |-> objects,
   heap |-> heap, raised |-> FALSE]

\* The locals become those of r.
Commit(r) ==
  /\ name' = r.name
  /\ mode' = r.mode
  /\ port_type' = r.port_type
  /\ port_size' = r.port_size
  /\ param_type' = r.param_type
  /\ param_size' = r.param_size
  /\ metacomments' = r.metacomments
  /\ generics' = r.generics
  /\ ports' = r.ports
  /\ paramsections' = r.paramsections
  /\ param_index' = r.param_index
  /\ portsections' = r.portsections
  /\ port_index' = r.port_index
  /\ last_item' = r.last_item
  /\ objects' = r.objects
  /\ heap' = r.heap

\* parse_verilog is called on a text of T.
ParserInit(T) ==
  /\ text \in T
  /\ pos = 0
  /\ stack = <<"root">>
  /\ pc = "run"
  /\ name = InitLocals.name
  /\ mode = InitLocals.mode
  /\ port_type = InitLocals.port_type
  /\ port_size = InitLocals.port_size
  /\ param_type = InitLocals.param_type
  /\ param_size = InitLocals.param_size
  /\ metacomments = InitLocals.metacomments
  /\ generics = InitLocals.generics
  /\ ports = InitLocals.ports
  /\ paramsections = InitLocals.paramsections
  /\ param_index = InitLocals.param_index
  /\ portsections = InitLocals.portsections
  /\ port_index = InitLocals.port_index
  /\ last_item = InitLocals.last_item
  /\ objects = InitLocals.objects
  /\ heap = InitLocals.heap
  /\ events = <<>>

\* The state after VerilogExtractor(), with the files fs on disk.
ExtractorInit(FS) ==
  /\ object_cache = EmptyDict
  /\ files \in FS
  /\ reads = [p \in Paths |-> 0]
  /\ ret = <<>>
  /\ call = [fname |-> "None", type_filter |-> "None", outcome |-> "None"]
  /\ first = EmptyDict
  /\ calls = 0

\* parse_verilog is called on a text; no extractor is in use.
Init == ParserInit(Texts) /\ ExtractorInit({EmptyDict})

(* ------------------------------------------------------------------------ *)
(* Actions: one turn of "for pos, action, groups in lex.run(text)".         *)
(* The lexer scans at the cursor; a rule with an action yields the event,   *)
(* and the loop body handles it before the lexer goes on.                   *)
(* ------------------------------------------------------------------------ *)

\* The loop body has run on an event and left the locals r; the lexer then
\* finishes its step (raised: it could not).
Handled(r, raised) ==
  /\ Commit(r)
  /\ pc' = IF r.raised \/ raised THEN "raised" ELSE "run"

\* The lexer's step sc is a match of a rule with action a: the event is
\* yielded and the loop body runs on it.
Yield(a, sc) ==
  /\ pc = "run"
  /\ sc.kind = "match"
  /\ sc.action = a
  /\ pos' = sc.pos
  /\ stack' = sc.stack
  /\ events' = Append(events, [action |-> a, groups |-> sc.groups, at |-> pos])
  /\ Handled(Interpret(Cur, a, sc.groups), sc.raised)
  /\ UNCHANGED <<text, extractor>>

Metacomment == Yield("metacomment", Scan(text, pos, stack))
SectionAll == Yield("section_all", Scan(text, pos, stack))
SectionParam == Yield("section_param", Scan(text, pos, stack))
SectionPort == Yield("section_port", Scan(text, pos, stack))
Module == Yield("module", Scan(text, pos, stack))
ParameterStart == Yield("parameter_start", Scan(text, pos, stack))
ParamItem == Yield("param_item", Scan(text, pos, stack))
ModulePortStart == Yield("module_port_start", Scan(text, pos, stack))
PortParam == Yield("port_param", Scan(text, pos, stack))
EndModule == Yield("end_module", Scan(text, pos, stack))
BlockComment == Yield("block_comment", Scan(text, pos, stack))
EndComment == Yield("end_comment", Scan(text, pos, stack))

\* The lexer's step sc is of kind k, with no event: a rule with no action
\* matched, or no rule matched and the cursor moves one character on.
Silent(k, sc) ==
  /\ pc = "run"
  /\ sc.kind = k
  /\ sc.action = "None"
  /\ pos' = sc.pos
  /\ stack' = sc.stack
  /\ pc' = IF sc.raised THEN "raised" ELSE "run"
  /\ UNCHANGED <<text, locals, events, extractor>>

\* A rule with no action matches: nothing is yielded.
Discard == Silent("match", Scan(text, pos, stack))

\* No rule of the state matches: the cursor moves one character on.
Advance == Silent("advance", Scan(text, pos, stack))

\* The text is exhausted: the loop ends and parse_verilog returns objects.
Return ==
  /\ pc = "run"
  /\ Scan(text, pos, stack).kind = "end"
  /\ pc' = "returned"
  /\ UNCHANGED <<lexer, locals, events, extractor>>

Next ==
  \/ Metacomment
  \/ SectionAll
  \/ SectionParam
  \/ SectionPort
  \/ Module
  \/ ParameterStart
  \/ ParamItem
  \/ ModulePortStart
  \/ PortParam
  \/ EndModule
  \/ BlockComment
  \/ EndComment
  \/ Discard
  \/ Advance
  \/ Return

Spec == Init /\ [][Next]_vars

\* The loop is never suspended: it keeps taking steps while it runs.  This is
\* weak fairness of Next, []<>~ENABLED <<Next>>_vars \/ []<><<Next>>_vars,
\* with ENABLED <<Next>>_vars written out: a step is possible exactly while
\* pc = "run", since the scanner then matches, advances or ends, and any of
\* these changes pos or pc.
FairSpec == Spec /\ ([]<>(pc # "run") \/ []<><<Next>>_vars)

(* ------------------------------------------------------------------------ *)
(* Actions of the extractor: calls of extract_objects, and the file system  *)
(* changing between them.  parse_verilog runs to its end within a call.     *)
(* ------------------------------------------------------------------------ *)

\* A call is made: it is counted and its arguments and outcome are noted.
Called(fname, type_filter, outcome) ==
  /\ calls < MaxCalls
  /\ calls' = calls + 1
  /\ call' = [fname |-> fname, type_filter |-> type_filter, outcome |-> outcome]

\* extract_objects(fname, type_filter) with fname in the cache.
ExtractCached ==
  \E fname \in Paths, type_filter \in TypeFilters :
    /\ CacheHit(object_cache, fname)
    /\ Called(fname, type_filter, "ok")
    /\ ret' = Filter(object_cache[fname], type_filter)
    /\ UNCHANGED <<object_cache, files, reads, first, parser>>

\* The file was read and parse_verilog gave r: the list is cached (first
\* notes the list of the path's first successful call) and returned,
\* filtered; had parse_verilog raised, nothing would be cached.
Parsed(fname, type_filter, r) ==
  /\ Called(fname, type_filter, IF r.raised THEN "raised" ELSE "ok")
  /\ reads' = [reads EXCEPT ![fname] = @ + 1]
  /\ object_cache' = IF r.raised THEN object_cache
                     ELSE DictSet(object_cache, fname, r.objects)
  /\ first' = IF r.raised \/ fname \in DOMAIN first THEN first
              ELSE DictSet(first, fname, r.objects)
  /\ ret' = IF r.raised THEN ret ELSE Filter(r.objects, type_filter)
  /\ UNCHANGED <<files, parser>>

\* extract_objects(fname, type_filter) with fname not in the cache: the
\* file is opened, read and parsed.
ExtractRead ==
  \E fname \in Paths, type_filter \in TypeFilters :
    /\ ~CacheHit(object_cache, fname)
    /\ fname \in DOMAIN files
    /\ Parsed(fname, type_filter, parse_verilog(files[fname]))

\* extract_objects(fname, type_filter) with fname not in the cache and no
\* such file: io.open raises.
ExtractFails ==
  \E fname \in Paths, type_filter \in TypeFilters :
    /\ ~CacheHit(object_cache, fname)
    /\ fname \notin DOMAIN files
    /\ Called(fname, type_filter, "IOError")
    /\ UNCHANGED <<object_cache, files, reads, ret, first, parser>>

\* The file system changes between calls: a file is written.
WriteFile ==
  \E fname \in Paths, t \in FileTexts :
    /\ calls < MaxCalls
    /\ calls' = calls + 1
    /\ fname \in DOMAIN files => files[fname] # t
    /\ files' = DictSet(files, fname, t)
    /\ UNCHANGED <<object_cache, reads, ret, call, first, parser>>

\* The file system changes between calls: a file is deleted.
DeleteFile ==
  \E fname \in DOMAIN files :
    /\ calls < MaxCalls
    /\ calls' = calls + 1
    /\ files' = DictDel(files, fname)
    /\ UNCHANGED <<object_cache, reads, ret, call, first, parser>>

CacheInit == ParserInit({<<>>}) /\ ExtractorInit(FileSystems)

CacheNext ==
  \/ ExtractCached
  \/ ExtractRead
  \/ ExtractFails
  \/ WriteFile
  \/ DeleteFile

CacheSpec == CacheInit /\ [][CacheNext]_vars

(* ------------------------------------------------------------------------ *)
(* Reading the history of events                                            *)
(* ------------------------------------------------------------------------ *)

\* The positions in events of the events whose action is in A.
EventsOf(A) == {i \in DOMAIN events : events[i].action \in A}

\* The k-th smallest element of S.
Nth(S, k) == CHOOSE x \in S : Cardinality({y \in S : y < x}) = k - 1

\* The last event before position i whose action is in A, 0 when none.
LastBefore(A, i) ==
  IF \E j \in EventsOf(A) : j < i
  THEN Max({j \in EventsOf(A) : j < i})
  ELSE 0

ModuleEvents == EventsOf({"module"})
EndEvents == EventsOf({"end_module"})

(* ------------------------------------------------------------------------ *)
(* C1                                                                       *)
(* ------------------------------------------------------------------------ *)

\* C1: objects holds exactly one record per end_module event; the k-th
\* end_module event closes the k-th module event (it follows it and comes
\* before the next module event) and its record bears that module's name; so
\* a module event with no end_module after it has no record.
C1_RecordPerClosedModule ==
  /\ Len(objects) = Cardinality(EndEvents)
  /\ Cardinality(ModuleEvents) \in
       {Cardinality(EndEvents), Cardinality(EndEvents) + 1}
  /\ \A k \in 1..Cardinality(EndEvents) :
       /\ Nth(ModuleEvents, k) < Nth(EndEvents, k)
       /\ k < Cardinality(ModuleEvents)
            => Nth(EndEvents, k) < Nth(ModuleEvents, k + 1)
       /\ objects[k].name = events[Nth(ModuleEvents, k)].groups[1]

\* parse_verilog has returned one record for a buffer with two module
\* events, the second one never closed.
C1_Witness ==
  /\ pc = "returned"
  /\ Cardinality(ModuleEvents) = 2
  /\ Cardinality(EndEvents) = 1
  /\ Len(objects) = 1

\* The events that create a parameter object, and the id (the index in heap)
\* of the object the event at i creates.
CreateEvents == EventsOf({"param_item", "port_param"})
ObjectOf(i) == Cardinality({j \in CreateEvents : j <= i})

\* The stripped texts of the metacomment events in S, in the events' order.
MetaTexts(S) ==
  [k \in 1..Cardinality(S) |-> Strip(events[Nth(S, k)].groups[1])]

\* The item a metacomment event at j belongs to: the last object created
\* before it with no end_module in between, 0 when there is none.
Owner(j) ==
  IF LastBefore({"param_item", "port_param"}, j) > LastBefore({"end_module"}, j)
  THEN LastBefore({"param_item", "port_param"}, j)
  ELSE 0

\* The metacomment events that belong to the object created at c.
Owned(c) == {j \in EventsOf({"metacomment"}) : Owner(j) = c}

\* The events with an action in A after event m, up to event e.
Window(A, m, e) == {i \in EventsOf(A) : m < i /\ i <= e}

\* The k-th module's events run from its module event to its end_module
\* event, or to the last event when it is not closed.
ModuleStart(k) == Nth(ModuleEvents, k)
ModuleEnd(k) ==
  IF k <= Cardinality(EndEvents) THEN Nth(EndEvents, k) ELSE Len(events)

\* The mode, type and size an opener's groups g set.
OpenerValues(g) ==
  [mode |-> g[1],
   data_type |->
     IF g[3] # None
     THEN (IF g[2] # None THEN g[2] ELSE <<"w", "i", "r", "e">>) \o <<" ">> \o g[3]
     ELSE (IF g[2] # None THEN g[2] ELSE <<"w", "i", "r", "e">>),
   data_size |-> g[4]]

\* The port_param events of P that are the first, and the last, of their name.
FirstDeclared(P) ==
  {i \in P : \A j \in P : j < i => events[j].groups[1] # events[i].groups[1]}
LastDeclared(P, nm) == Max({j \in P : events[j].groups[1] = nm})

\* ids, a list of object ids, is the port list that the port_param events P
\* of one module give: an entry per name in the order of the names' first
\* port_param; the entry is the object the name's last port_param created,
\* with the opener's values and the metacomments of that last declaration.
PortsAgree(ids, P) ==
  /\ Len(ids) = Cardinality(FirstDeclared(P))
  /\ \A k \in 1..Len(ids) :
       /\ heap[ids[k]].name = events[Nth(FirstDeclared(P), k)].groups[1]
       /\ ids[k] = ObjectOf(LastDeclared(P, heap[ids[k]].name))
       /\ heap[ids[k]].desc = MetaTexts(Owned(LastDeclared(P, heap[ids[k]].name)))
       /\ LET o == LastBefore({"module_port_start"}, LastDeclared(P, heap[ids[k]].name))
          IN /\ o # 0
             /\ heap[ids[k]].mode = OpenerValues(events[o].groups).mode
             /\ heap[ids[k]].data_type = OpenerValues(events[o].groups).data_type
             /\ heap[ids[k]].data_size = OpenerValues(events[o].groups).data_size

(* ------------------------------------------------------------------------ *)
(* C2                                                                       *)
(* ------------------------------------------------------------------------ *)

\* C2: the ports of a module, while it is read and in its record, hold one
\* entry per distinct name of its port_param events, in the order of the
\* names' first occurrence; a name declared again keeps its place and gets
\* the mode, type, size and description of its last declaration.
C2_PortsByFirstOccurrence ==
  /\ ModuleEvents # {} =>
       /\ PortsAgree(Values(ports),
                     Window({"port_param"}, Max(ModuleEvents), Len(events)))
       /\ \A k \in DOMAIN ports : ports[k].key = heap[ports[k].obj].name
  /\ \A k \in DOMAIN objects :
       PortsAgree(objects[k].ports,
                  Window({"port_param"}, ModuleStart(k), ModuleEnd(k)))

\* A record is returned whose module declared a, then b, then a again: its
\* ports are a then b, and a is the output of the second declaration.
C2_Witness ==
  /\ pc = "returned"
  /\ \E k \in DOMAIN objects :
       /\ Cardinality(Window({"port_param"}, ModuleStart(k), ModuleEnd(k))) = 3
       /\ Len(objects[k].ports) = 2
       /\ heap[objects[k].ports[1]].name = <<"a">>
       /\ heap[objects[k].ports[1]].mode = <<"o", "u", "t", "p", "u", "t">>
       /\ heap[objects[k].ports[2]].name = <<"b">>

(* ------------------------------------------------------------------------ *)
(* C3                                                                       *)
(* ------------------------------------------------------------------------ *)

\* The groups of event e are those its branch of the loop body can take:
\* the metacomment branch strips groups[0], the parameter_start and
\* param_item branches unpack exactly two groups, the module_port_start
\* branch slices four, the others read groups[0].
GroupsFit(e) ==
  CASE e.action = "metacomment" -> Len(e.groups) >= 1 /\ e.groups[1] # None
    [] e.action \in {"parameter_start", "param_item"} -> Len(e.groups) = 2
    [] e.action = "module_port_start" -> Len(e.groups) >= 4
    [] e.action \in {"section_all", "section_param", "section_port", "module",
                     "port_param"} -> Len(e.groups) >= 1
    [] OTHER -> TRUE

\* C3: parse_verilog never raises: every event the lexer yields has the
\* groups its branch needs, the lexer always has a current state, and the
\* call, when it ends, ends at the end of the text with a list of module
\* records.
C3_NeverRaises ==
  /\ pc \in {"run", "returned"}
  /\ stack # <<>>
  /\ \A i \in DOMAIN events : GroupsFit(events[i])
  /\ pc = "returned" =>
       /\ pos = Len(text)
       /\ \A k \in DOMAIN objects : objects[k].kind = "module"

\* parse_verilog has returned the empty list for a truncated buffer that
\* yielded events: it ends inside a module.
C3_Witness ==
  /\ pc = "returned"
  /\ objects = <<>>
  /\ Len(events) >= 3
  /\ Len(stack) > 1

(* ------------------------------------------------------------------------ *)
(* C4                                                                       *)
(* ------------------------------------------------------------------------ *)

\* Every step of the running scanner moves the cursor forward, staying
\* within the text, or ends the run at the end of the text.
C4_StepAdvances ==
  [][pc = "run" =>
       \/ pos < pos' /\ pos' <= Len(text)
       \/ pos = Len(text) /\ pos' = pos /\ pc' = "returned"]_vars

\* With no rule of the current state matching, the cursor moves exactly one
\* character on, nothing is yielded and the state is kept.
C4_NoMatchAdvancesOne ==
  [][(/\ pc = "run"
      /\ pos < Len(text)
      /\ FirstMatch(Matches(text, pos, verilog_tokens[Top(stack)])) = 0)
       => /\ pos' = pos + 1
          /\ events' = events
          /\ stack' = stack
          /\ UNCHANGED locals]_vars

\* The actions the rules of the grammar table name.
YieldedActions ==
  {"metacomment", "section_all", "section_param", "section_port", "module",
   "parameter_start", "param_item", "module_port_start", "port_param",
   "end_module", "block_comment", "end_comment"}

\* The outcome sc of a scan is a step: a match of a rule whose action, if
\* any, is one of the table's, or an advance, or the end.
IsStep(sc) ==
  /\ sc.kind \in {"match", "advance", "end"}
  /\ sc.action \in YieldedActions \cup {"None"}

\* While the loop runs a step is possible.
C4_StepPossible == [](pc = "run" => IsStep(Scan(text, pos, stack)))

\* C4: tokenizing terminates: while the loop runs a step is possible, every
\* step strictly advances the cursor, a step with no matching rule advances
\* it by one and yields nothing, and the run eventually ends with the cursor
\* at the end of the text.
C4_TokenizingTerminates ==
  /\ C4_StepPossible
  /\ C4_StepAdvances
  /\ C4_NoMatchAdvancesOne
  /\ <>(pc = "returned" /\ pos = Len(text))

\* The run has ended at the end of the text inside a block comment that was
\* opened in a module and never closed.
C4_Witness ==
  /\ pc = "returned"
  /\ pos = Len(text)
  /\ stack = <<"root", "module", "block_comment">>

(* ------------------------------------------------------------------------ *)
(* C5                                                                       *)
(* ------------------------------------------------------------------------ *)

\* The generics that the param_item events P give: the objects created by
\* them, in their order.
GenericsOf(P) == [k \in 1..Cardinality(P) |-> ObjectOf(Nth(P, k))]

\* C5: the object a param_item event creates has the captured name, mode
\* 'param', the captured default value, and the type and size the last
\* parameter_start event before it set ('' when that opener captured no
\* type); the generics of a module are these objects in the events' order.
C5_ParamItemsTakeOpenerType ==
  /\ \A i \in EventsOf({"param_item"}) :
       /\ LastBefore({"parameter_start"}, i) # 0
       /\ heap[ObjectOf(i)].name = events[i].groups[1]
       /\ heap[ObjectOf(i)].mode = <<"p", "a", "r", "a", "m">>
       /\ heap[ObjectOf(i)].default_value = events[i].groups[2]
       /\ heap[ObjectOf(i)].data_type =
            IF events[LastBefore({"parameter_start"}, i)].groups[1] # None
            THEN events[LastBefore({"parameter_start"}, i)].groups[1]
            ELSE <<>>
       /\ heap[ObjectOf(i)].data_size =
            events[LastBefore({"parameter_start"}, i)].groups[2]
  /\ ModuleEvents # {} =>
       generics = GenericsOf(Window({"param_item"}, Max(ModuleEvents), Len(events)))
  /\ \A k \in DOMAIN objects :
       objects[k].generics =
         GenericsOf(Window({"param_item"}, ModuleStart(k), ModuleEnd(k)))

\* A record is returned whose generics are N and M of one opener
\* "parameter integer N = 4, M = 8": both are of type integer.
C5_Witness ==
  /\ pc = "returned"
  /\ \E k \in DOMAIN objects :
       /\ Cardinality(Window({"parameter_start"}, ModuleStart(k), ModuleEnd(k))) = 1
       /\ Len(objects[k].generics) = 2
       /\ heap[objects[k].generics[1]].name = <<"N">>
       /\ heap[objects[k].generics[1]].data_type = <<"i", "n", "t", "e", "g", "e", "r">>
       /\ heap[objects[k].generics[1]].default_value = <<"4">>
       /\ heap[objects[k].generics[2]].name = <<"M">>
       /\ heap[objects[k].generics[2]].data_type = <<"i", "n", "t", "e", "g", "e", "r">>
       /\ heap[objects[k].generics[2]].default_value = <<"8">>

(* ------------------------------------------------------------------------ *)
(* C6                                                                       *)
(* ------------------------------------------------------------------------ *)

\* The metacomment events after event m, up to event e, that belong to no
\* item.
Unowned(m, e) == {j \in Window({"metacomment"}, m, e) : Owner(j) = 0}

\* The end_module event before the k-th one, 0 for the first.
PrevEnd(k) == IF k = 1 THEN 0 ELSE Nth(EndEvents, k - 1)

\* C6: the description of every port and parameter is the stripped texts of
\* the metacomments that follow it, up to the next item or the end_module;
\* these metacomments are in no module-level description: the buffered
\* metacomments and the descriptions of the records hold the texts of the
\* other metacomments only.
C6_ItemMetacomments ==
  /\ \A c \in CreateEvents : heap[ObjectOf(c)].desc = MetaTexts(Owned(c))
  /\ metacomments =
       MetaTexts(Unowned(IF EndEvents = {} THEN 0 ELSE Max(EndEvents), Len(events)))
  /\ \A k \in DOMAIN objects :
       objects[k].desc = MetaTexts(Unowned(PrevEnd(k), Nth(EndEvents, k)))

\* A record is returned with a port that a metacomment "//# top " followed:
\* the port's description is "top" and the module's own description is empty.
C6_Witness ==
  /\ pc = "returned"
  /\ \E k \in DOMAIN objects :
       /\ objects[k].desc = <<>>
       /\ \E c \in Window({"port_param"}, ModuleStart(k), ModuleEnd(k)) :
            /\ Owned(c) # {}
            /\ heap[ObjectOf(c)].desc = << <<"t", "o", "p">> >>

(* ------------------------------------------------------------------------ *)
(* C7                                                                       *)
(* ------------------------------------------------------------------------ *)

\* The section markers that apply to ports, and the number of port_param
\* events of the module opened at m before event j.
PortMarkers(m, e) == Window({"section_port", "section_all"}, m, e)
PortCount(m, j) == Cardinality(Window({"port_param"}, m, j))

\* The reading of C7 that records every marker: each marker that applies to
\* ports, seen after n port_param events of its module, is in the record's
\* portsections under n with its own title.
C7_EveryMarkerRecorded ==
  \A k \in DOMAIN objects :
    \A j \in PortMarkers(ModuleStart(k), ModuleEnd(k)) :
      /\ PortCount(ModuleStart(k), j) \in DOMAIN objects[k].portsections
      /\ objects[k].portsections[PortCount(ModuleStart(k), j)] = events[j].groups[1]

\* The pairs that the markers M of the module opened at m give, in order.
SectionPairs(M, m) ==
  [i \in 1..Cardinality(M) |->
     <<PortCount(m, Nth(M, i)), events[Nth(M, i)].groups[1]>>]

\* C7: each marker that applies to ports appends (n, title) to portsections,
\* n being the number of port_param events of the module so far; the record's
\* portsections has exactly these n as keys, each with the title of the last
\* marker seen at n.
C7_LastMarkerPerCount ==
  /\ ModuleEvents # {} =>
       portsections =
         SectionPairs(PortMarkers(Max(ModuleEvents), Len(events)), Max(ModuleEvents))
  /\ \A k \in DOMAIN objects :
       /\ DOMAIN objects[k].portsections =
            {PortCount(ModuleStart(k), j) : j \in PortMarkers(ModuleStart(k), ModuleEnd(k))}
       /\ \A j \in PortMarkers(ModuleStart(k), ModuleEnd(k)) :
            (\A j2 \in PortMarkers(ModuleStart(k), ModuleEnd(k)) :
               j2 > j => PortCount(ModuleStart(k), j2) # PortCount(ModuleStart(k), j))
              => objects[k].portsections[PortCount(ModuleStart(k), j)]
                   = events[j].groups[1]

\* A record is returned whose module had a marker {{T}} after two port
\* declarations: its portsections maps 2 to "T".
C7_Witness ==
  /\ pc = "returned"
  /\ \E k \in DOMAIN objects :
       /\ \E j \in PortMarkers(ModuleStart(k), ModuleEnd(k)) :
            PortCount(ModuleStart(k), j) = 2
       /\ 2 \in DOMAIN objects[k].portsections
       /\ objects[k].portsections[2] = <<"T">>

(* ------------------------------------------------------------------------ *)
(* C8                                                                       *)
(* ------------------------------------------------------------------------ *)

\* The list the specification gives for its example: one module foo with
\* the ports a (input, wire) and b (output, reg, [7:0]).
FooExpected ==
  << VerilogModule(<<"f", "o", "o">>,
       << VerilogParameter(<<"a">>, <<"i", "n", "p", "u", "t">>,
                           <<"w", "i", "r", "e">>, None, None),
          VerilogParameter(<<"b">>, <<"o", "u", "t", "p", "u", "t">>,
                           <<"r", "e", "g">>, <<"[", "7", ":", "0", "]">>, None) >>,
       <<>>, Dict(<<>>), Dict(<<>>), <<>>) >>

\* C8: the port a port_param event builds has the mode, type and size of
\* the last opener before it; and the example of the specification gives
\* one module foo with the ports a and b.
C8_StickyPortValues ==
  /\ \A i \in EventsOf({"port_param"}) :
       /\ LastBefore({"module_port_start"}, i) # 0
       /\ heap[ObjectOf(i)].mode =
            OpenerValues(events[LastBefore({"module_port_start"}, i)].groups).mode
       /\ heap[ObjectOf(i)].data_type =
            OpenerValues(events[LastBefore({"module_port_start"}, i)].groups).data_type
       /\ heap[ObjectOf(i)].data_size =
            OpenerValues(events[LastBefore({"module_port_start"}, i)].groups).data_size
  /\ (text = FooExample /\ pc = "returned") => ObjectValues(Cur) = FooExpected

(* ------------------------------------------------------------------------ *)
(* C10                                                                      *)
(* ------------------------------------------------------------------------ *)

\* The metacomment events that arrive with no module open and that the k-th
\* module event follows: those between the end_module before it and it.
Orphans(k) == Window({"metacomment"}, PrevEnd(k), ModuleStart(k))

C9_ReadOncePerPath ==
  \A p \in Paths :
    /\ reads[p] <= 1
    /\ p \in DOMAIN first =>
         /\ reads[p] = 1
         /\ p \in DOMAIN object_cache
         /\ object_cache[p] = first[p]
    /\ (call.fname = p /\ call.outcome = "ok") =>
         /\ p \in DOMAIN first
         /\ ret = Filter(first[p], call.type_filter)
    /\ (call.fname = p /\ p \in DOMAIN first) => call.outcome = "ok"

\* A later call for a path whose file has since been deleted succeeded
\* without a second read, and its VerilogModule filter kept the module of the
\* first call's list.
C9_Witness ==
  \E p \in Paths :
    /\ calls >= 3
    /\ p \notin DOMAIN files
    /\ call = [fname |-> p, type_filter |-> "VerilogModule", outcome |-> "ok"]
    /\ reads[p] = 1
    /\ Len(first[p]) = 1
    /\ ret = first[p]

(* ------------------------------------------------------------------------ *)
(* Reading a step: the event it yields                                      *)
(* ------------------------------------------------------------------------ *)

\* The step yields an event with action a, and the groups of that event.
Yielded(a) ==
  /\ Len(events') = Len(events) + 1
  /\ events'[Len(events')].action = a
YieldedGroups == events'[Len(events')].groups

(* ------------------------------------------------------------------------ *)
(* C11                                                                      *)
(* ------------------------------------------------------------------------ *)

\* The reading of C11 that keeps what is not captured: a parameter_start
\* event sets the sticky type and size from the groups it captured and
\* leaves the other as it was.
C11_UncapturedKept ==
  [][Yielded("parameter_start") =>
       /\ param_type' = IF YieldedGroups[1] # None THEN YieldedGroups[1]
                        ELSE param_type
       /\ param_size' = IF YieldedGroups[2] # None THEN YieldedGroups[2]
                        ELSE param_size]_vars

\* C11: a parameter_start event sets the sticky type to the captured type,
\* '' when none is captured, and the sticky size to the captured range, None
\* when none is captured, whatever they were; it changes nothing else.
C11_UncapturedReset ==
  [][Yielded("parameter_start") =>
       /\ param_type' = IF YieldedGroups[1] # None THEN YieldedGroups[1]
                        ELSE <<>>
       /\ param_size' = IF YieldedGroups[2] # None THEN YieldedGroups[2]
                        ELSE None
       /\ UNCHANGED <<name, mode, port_type, port_size, metacomments, generics,
                      ports, paramsections, param_index, portsections,
                      port_index, last_item, objects, heap>>]_vars

\* A record is returned for "parameter integer N = 4, M = 8" followed by
\* "parameter [3:0] P = 1": P has the size [3:0] and the type '', not the
\* earlier opener's integer.
C11_Witness ==
  /\ pc = "returned"
  /\ \E k \in DOMAIN objects :
       /\ Len(objects[k].generics) = 3
       /\ heap[objects[k].generics[1]].data_type = <<"i", "n", "t", "e", "g", "e", "r">>
       /\ heap[objects[k].generics[3]].name = <<"P">>
       /\ heap[objects[k].generics[3]].data_type = <<>>
       /\ heap[objects[k].generics[3]].data_size = <<"[", "3", ":", "0", "]">>

(* ------------------------------------------------------------------------ *)
(* C12                                                                      *)
(* ------------------------------------------------------------------------ *)

\* The reading of C12 that keeps what is not captured: a module_port_start
\* event sets the mode, and the sticky net type and size only from the
\* groups it captured.
C12_UncapturedKept ==
  [][Yielded("module_port_start") =>
       /\ mode' = YieldedGroups[1]
       /\ YieldedGroups[2] = None /\ YieldedGroups[3] = None
            => port_type' = port_type
       /\ YieldedGroups[4] = None => port_size' = port_size]_vars

\* C12: a module_port_start event sets the mode to the captured direction,
\* the sticky type to the captured net type, 'wire' when none is captured
\* (with ' signed' appended when captured), and the sticky size to the
\* captured range, None when none is captured; it changes nothing else.
C12_UncapturedReset ==
  [][Yielded("module_port_start") =>
       /\ mode' = OpenerValues(YieldedGroups).mode
       /\ port_type' = OpenerValues(YieldedGroups).data_type
       /\ port_size' = OpenerValues(YieldedGroups).data_size
       /\ YieldedGroups[2] = None /\ YieldedGroups[3] = None
            => port_type' = <<"w", "i", "r", "e">>
       /\ YieldedGroups[4] = None => port_size' = None
       /\ UNCHANGED <<name, param_type, param_size, metacomments, generics,
                      ports, paramsections, param_index, portsections,
                      port_index, last_item, objects, heap>>]_vars

\* A record is returned for "output reg [7:0] b, a" followed by "inout c":
\* c is an inout wire with no size, not a reg [7:0].
C12_Witness ==
  /\ pc = "returned"
  /\ \E k \in DOMAIN objects :
       /\ Len(objects[k].ports) = 3
       /\ heap[objects[k].ports[1]].data_type = <<"r", "e", "g">>
       /\ heap[objects[k].ports[1]].data_size = <<"[", "7", ":", "0", "]">>
       /\ heap[objects[k].ports[3]].name = <<"c">>
       /\ heap[objects[k].ports[3]].mode = <<"i", "n", "o", "u", "t">>
       /\ heap[objects[k].ports[3]].data_type = <<"w", "i", "r", "e">>
       /\ heap[objects[k].ports[3]].data_size = None

(* ------------------------------------------------------------------------ *)
(* C13                                                                      *)
(* ------------------------------------------------------------------------ *)

\* C13: a section_all event appends (param_index, title) to paramsections
\* and (port_index, title) to portsections; a section_param event appends to
\* paramsections only and a section_port event to portsections only; none
\* of them changes anything else.
C13_SectionEventsFrame ==
  [][/\ Yielded("section_all") =>
          /\ paramsections' = Append(paramsections, <<param_index, YieldedGroups[1]>>)
          /\ portsections' = Append(portsections, <<port_index, YieldedGroups[1]>>)
     /\ Yielded("section_param") =>
          /\ paramsections' = Append(paramsections, <<param_index, YieldedGroups[1]>>)
          /\ portsections' = portsections
     /\ Yielded("section_port") =>
          /\ portsections' = Append(portsections, <<port_index, YieldedGroups[1]>>)
          /\ paramsections' = paramsections
     /\ (Yielded("section_all") \/ Yielded("section_param") \/ Yielded("section_port")) =>
          UNCHANGED <<name, mode, port_type, port_size, param_type, param_size,
                      metacomments, generics, ports, param_index, port_index,
                      last_item, objects, heap>>]_vars

\* A section_all event has just been handled in a module with no parameter
\* and two port declarations: it is keyed 0 for the parameters and 2 for the
\* ports.
C13_Witness ==
  /\ events # <<>>
  /\ events[Len(events)].action = "section_all"
  /\ param_index = 0
  /\ port_index = 2
  /\ paramsections = << <<0, <<"T">> >> >>
  /\ portsections = << <<2, <<"T">> >> >>

(* ------------------------------------------------------------------------ *)
(* C14                                                                      *)
(* ------------------------------------------------------------------------ *)

\* The section markers that apply to parameters.
ParamMarkers(m, e) == Window({"section_param", "section_all"}, m, e)

\* The number of events with an action in A of the module opened at m
\* before event j.
ItemCount(A, m, j) == Cardinality(Window(A, m, j))

\* The mapping d is what the markers M of the module opened at m give, the
\* items counted being the events with an action in A: its keys are the
\* counts at the markers, and each key has the title of the last marker seen
\* at that count.
SectionMapAgrees(d, M, m, A) ==
  /\ DOMAIN d = {ItemCount(A, m, j) : j \in M}
  /\ \A j \in M :
       d[ItemCount(A, m, j)] =
         events[Max({j2 \in M : ItemCount(A, m, j2) = ItemCount(A, m, j)})].groups[1]

\* C14: in every record each section mapping has one key per count at which
\* a marker of its kind was seen in the module, with the title of the last
\* marker seen at that count.
C14_LaterMarkerWins ==
  \A k \in DOMAIN objects :
    /\ SectionMapAgrees(objects[k].paramsections,
                        ParamMarkers(ModuleStart(k), ModuleEnd(k)),
                        ModuleStart(k), {"param_item"})
    /\ SectionMapAgrees(objects[k].portsections,
                        PortMarkers(ModuleStart(k), ModuleEnd(k)),
                        ModuleStart(k), {"port_param"})

\* A record is returned whose module had two markers with different titles
\* at the same parameter count: the mapping has the later title there.
C14_Witness ==
  /\ pc = "returned"
  /\ \E k \in DOMAIN objects :
       \E j1, j2 \in ParamMarkers(ModuleStart(k), ModuleEnd(k)) :
         /\ j1 < j2
         /\ ItemCount({"param_item"}, ModuleStart(k), j1)
              = ItemCount({"param_item"}, ModuleStart(k), j2)
         /\ events[j1].groups[1] # events[j2].groups[1]
         /\ objects[k].paramsections[ItemCount({"param_item"}, ModuleStart(k), j2)]
              = events[j2].groups[1]

(* ------------------------------------------------------------------------ *)
(* C15                                                                      *)
(* ------------------------------------------------------------------------ *)

\* Every entry of the mapping d comes from a marker of M, the items counted
\* being the events with an action in A of the module opened at m.
SectionsFrom(d, M, m, A) ==
  \A n \in DOMAIN d :
    \E j \in M : ItemCount(A, m, j) = n /\ events[j].groups[1] = d[n]

\* Everything in the k-th record comes from the events between the k-th
\* module event and its end_module event.
OwnItemsOnly(k) ==
  /\ \A i \in DOMAIN objects[k].ports :
       \E c \in Window({"port_param"}, ModuleStart(k), ModuleEnd(k)) :
         ObjectOf(c) = objects[k].ports[i]
  /\ \A i \in DOMAIN objects[k].generics :
       \E c \in Window({"param_item"}, ModuleStart(k), ModuleEnd(k)) :
         ObjectOf(c) = objects[k].generics[i]
  /\ SectionsFrom(objects[k].paramsections,
                  ParamMarkers(ModuleStart(k), ModuleEnd(k)),
                  ModuleStart(k), {"param_item"})
  /\ SectionsFrom(objects[k].portsections,
                  PortMarkers(ModuleStart(k), ModuleEnd(k)),
                  ModuleStart(k), {"port_param"})

\* A module event sets the name and empties generics, ports and the section
\* lists with their counts.
C15_ModuleResets ==
  [][Yielded("module") =>
       /\ name' = YieldedGroups[1]
       /\ generics' = <<>>
       /\ ports' = <<>>
       /\ paramsections' = <<>>
       /\ param_index' = 0
       /\ portsections' = <<>>
       /\ port_index' = 0]_vars

\* C15: the module event resets the per-module accumulators, and the
\* generics, ports and section mappings of every record hold only what the
\* events between its own module event and its end_module event produced.
C15_RecordsHoldOwnItems ==
  /\ C15_ModuleResets
  /\ [](\A k \in DOMAIN objects : OwnItemsOnly(k))

\* Two records are returned, the first with the port x of the first module:
\* the second has the one port a of the second module.
C15_Witness ==
  /\ pc = "returned"
  /\ Len(objects) = 2
  /\ Len(objects[1].ports) = 1
  /\ heap[objects[1].ports[1]].name = <<"x">>
  /\ Len(objects[2].ports) = 1
  /\ heap[objects[2].ports[1]].name = <<"a">>

(* ------------------------------------------------------------------------ *)
(* C16                                                                      *)
(* ------------------------------------------------------------------------ *)

\* The parameter objects a record refers to.
ItemsOf(m) ==
  {m.ports[i] : i \in DOMAIN m.ports} \cup {m.generics[i] : i \in DOMAIN m.generics}

\* No module is open: every module event has had its end_module.
NoModuleOpen == Cardinality(ModuleEvents) = Cardinality(EndEvents)

\* C16: no step changes a record that is in objects: the record stays in
\* its place with its name, ports, generics, section mappings and
\* description, and the ports and parameters it refers to keep their fields
\* and descriptions.  The record shares the ports dict and the generics list
\* with the locals ports and generics until the next module event rebinds
\* them: until then no step changes these either.
C16_RecordsImmutable ==
  [][/\ \A k \in DOMAIN objects :
          /\ k \in DOMAIN objects'
          /\ objects'[k] = objects[k]
          /\ \A id \in ItemsOf(objects[k]) : heap'[id] = heap[id]
     /\ (objects # <<>> /\ NoModuleOpen /\ ~Yielded("module")) =>
          /\ ports' = ports
          /\ generics' = generics]_vars

\* Two records are returned, and after the first was appended a module,
\* a port_param and a metacomment event followed: the first record still
\* has its one port x with no description.
C16_Witness ==
  /\ pc = "returned"
  /\ Len(objects) = 2
  /\ Window({"metacomment"}, Nth(EndEvents, 1), Len(events)) # {}
  /\ Window({"port_param"}, Nth(EndEvents, 1), Len(events)) # {}
  /\ Len(objects[1].ports) = 1
  /\ heap[objects[1].ports[1]].name = <<"x">>
  /\ heap[objects[1].ports[1]].desc = <<>>

(* ------------------------------------------------------------------------ *)
(* C17                                                                      *)
(* ------------------------------------------------------------------------ *)

\* C17: a block_comment event pushes block_comment on the stack and changes
\* no local; in the block_comment state a step is either the end_comment
\* event on the two characters of the close sequence, which pops the stack
\* and changes no local, or a move of one character (or the end of the run)
\* with no event and no change of the stack or of a local.
C17_BlockCommentInert ==
  [][/\ Yielded("block_comment") =>
          /\ stack' = Append(stack, "block_comment")
          /\ UNCHANGED locals
     /\ (pc = "run" /\ Top(stack) = "block_comment") =>
          \/ /\ Yielded("end_comment")
             /\ Lit(text, pos, <<"*", "/">>)
             /\ pos' = pos + 2
             /\ stack' = SubSeq(stack, 1, Len(stack) - 1)
             /\ UNCHANGED locals
          \/ /\ ~Lit(text, pos, <<"*", "/">>)
             /\ events' = events
             /\ stack' = stack
             /\ UNCHANGED locals
             /\ \/ pos' = pos + 1 /\ pc' = "run"
                \/ pos = Len(text) /\ pos' = pos /\ pc' = "returned"]_vars

\* A record is returned for a module with a block comment that holds the
\* word endmodule: the end_comment event follows the block_comment event
\* with no event between them, and the one end_module event comes after.
C17_Witness ==
  /\ pc = "returned"
  /\ Len(objects) = 1
  /\ Cardinality(EndEvents) = 1
  /\ \E i \in EventsOf({"block_comment"}) :
       /\ i + 1 \in EventsOf({"end_comment"})
       /\ Lit(text, events[i].at + 3, kw_endmodule)
       /\ events[i + 1].at > events[i].at + 3
       /\ i + 1 < Max(EndEvents)

(* ------------------------------------------------------------------------ *)
(* C18                                                                      *)
(* ------------------------------------------------------------------------ *)

\* The stacks of states the lexer can have.
LexerStacks ==
  { <<"root">>,
    <<"root", "block_comment">>,
    <<"root", "module">>,
    <<"root", "module", "block_comment">>,
    <<"root", "module", "parameters">>,
    <<"root", "module", "module_port">>,
    <<"root", "module", "module_port", "block_comment">> }

\* C18: the stack is always one of the seven of LexerStacks; a module event
\* is yielded from the stack root and leaves root, module; an end_module
\* event is yielded from root, module and leaves root.
C18_StackShapes ==
  /\ [](stack \in LexerStacks)
  /\ [][/\ Yielded("module") =>
             stack = <<"root">> /\ stack' = <<"root", "module">>
        /\ Yielded("end_module") =>
             stack = <<"root", "module">> /\ stack' = <<"root">>]_vars

\* The lexer is in a block comment opened in the port list of a module,
\* after a module line between module and endmodule yielded no event.
C18_Witness ==
  /\ stack = <<"root", "module", "module_port", "block_comment">>
  /\ Cardinality(ModuleEvents) = 1
  /\ Cardinality(Window({"port_param"}, 0, Len(events))) >= 1

(* ------------------------------------------------------------------------ *)
(* C20                                                                      *)
(* ------------------------------------------------------------------------ *)

\* C20: every port_param event has a module_port_start event before it and
\* after the last module event before it, and the port has that opener's
\* mode, type and size; every param_item event has a parameter_start event
\* before it and after the last module event before it, and the parameter
\* has that opener's type and size.
C20_OpenerInSameModule ==
  /\ \A i \in EventsOf({"port_param"}) :
       /\ LastBefore({"module"}, i) > 0
       /\ LastBefore({"module_port_start"}, i) > LastBefore({"module"}, i)
       /\ LET g == events[LastBefore({"module_port_start"}, i)].groups
          IN /\ heap[ObjectOf(i)].mode = g[1]
             /\ heap[ObjectOf(i)].data_type = OpenerValues(g).data_type
             /\ heap[ObjectOf(i)].data_size = g[4]
  /\ \A i \in EventsOf({"param_item"}) :
       /\ LastBefore({"module"}, i) > 0
       /\ LastBefore({"parameter_start"}, i) > LastBefore({"module"}, i)
       /\ LET g == events[LastBefore({"parameter_start"}, i)].groups
          IN /\ heap[ObjectOf(i)].data_type = (IF g[1] # None THEN g[1] ELSE <<>>)
             /\ heap[ObjectOf(i)].data_size = g[2]

\* Two records are returned; the first module declared an input wire x, and
\* the first port of the second is the output reg [7:0] of its own opener.
C20_Witness ==
  /\ pc = "returned"
  /\ Len(objects) = 2
  /\ Len(objects[1].ports) >= 1
  /\ heap[objects[1].ports[1]].mode = <<"i", "n", "p", "u", "t">>
  /\ Len(objects[2].ports) >= 1
  /\ heap[objects[2].ports[1]].mode = <<"o", "u", "t", "p", "u", "t">>
  /\ heap[objects[2].ports[1]].data_type = <<"r", "e", "g">>
  /\ heap[objects[2].ports[1]].data_size = <<"[", "7", ":", "0", "]">>

(* ------------------------------------------------------------------------ *)
(* C19                                                                      *)
(* ------------------------------------------------------------------------ *)

\* C19: in every record each key of paramsections lies between 0 and the
\* number of entries of generics, and each key of portsections between 0
\* and the number of entries of ports.
C19_SectionKeysInRange ==
  \A k \in DOMAIN objects :
    /\ DOMAIN objects[k].paramsections \subseteq 0 .. Len(objects[k].generics)
    /\ DOMAIN objects[k].portsections \subseteq 0 .. Len(objects[k].ports)

\* The half of C19 on parameters: generics is a list, so param_index is its
\* length at every marker.
C19_ParamKeysInRange ==
  \A k \in DOMAIN objects :
    DOMAIN objects[k].paramsections \subseteq 0 .. Len(objects[k].generics)

====
